---------------------------- MODULE Spec2Model ----------------------------
(***************************************************************************)
(* A model of stravaplot's track similarity functions                      *)
(* (src/stravaplot/similarity.py): window, common_prefix_len,              *)
(* make_shingles, b1_minhash_sig and geohash_track; of its loader          *)
(* (src/stravaplot/model.py): load_activities; and of its animation frames *)
(* (src/stravaplot/animate.py): init_frame and update_artists.             *)
(*                                                                         *)
(* The functions are pure.  The state machine is a caller that invokes one *)
(* of them on arguments drawn from bounded sets, observes the result and   *)
(* returns to idle.  Strings are sequences of character codes, so that     *)
(* joining, hashing and prefix comparison act on the characters.  The      *)
(* animation is a state machine of its own over the matplotlib artists.    *)
(***************************************************************************)
EXTENDS Integers, Sequences, FiniteSets

VARIABLES
    fn,     \* the function being called, or "idle"
    args,   \* the arguments of the call (a record)
    ret,    \* what the call produced: [raised |-> ..., value |-> ...]
    artists,  \* the animation's artists: time text, head dot, track lines
    anim_tracks, \* the tracks being animated
    frames    \* the time indices drawn since init_frame, in order

animation == <<artists, anim_tracks, frames>>

vars == <<fn, args, ret, artists, anim_tracks, frames>>

---------------------------------------------------------------------------
(* Bounds of the model *)

\* longest symbol sequence handed to window and make_shingles
MaxLen == 5
\* largest window / shingle size
MaxSize == 3

\* longest string handed to common_prefix_len
MaxStr == 3

\* longest symbol sequence whose shingles are handed to b1_minhash_sig
MaxHashLen == 3
\* largest number of signature components
MaxComponents == 2
\* longest track handed to geohash_track
MaxTrack == 3
\* largest geohash precision
MaxPrecision == 2

\* most activity rows in the metadata table
MaxRows == 2
\* latest timestamp of a recorded sample, in seconds
MaxTime == 4
\* most records in an activity file
MaxSamples == 3
\* longest resampling period, in seconds
MaxFreq == 2

\* most tracks in an animation
MaxTracks == 2
\* most frames drawn after init_frame
MaxFrames == 3

(* Character codes *)
\* the characters 'a', 'b' of the strings compared by common_prefix_len
Chars == {97, 98}
SPACE == <<32>>
\* the symbols 'a', 'b', 'c' of the tests (src/tests/test_similarity.py:36)
Symbols == {<<97>>, <<98>>, <<99>>}

RECURSIVE SeqsUpTo(_, _)
SeqsUpTo(S, n) ==
    IF n = 0 THEN {<<>>}
    ELSE LET shorter == SeqsUpTo(S, n - 1)
         IN  shorter \cup {Append(s, x) : s \in {t \in shorter : Len(t) = n - 1}, x \in S}

\* a Python set with the members S: one object per iteration order
RECURSIVE PySet(_)
PySet(S) ==
    IF S = {} THEN {<<>>}
    ELSE UNION {{<<x>> \o o : o \in PySet(S \ {x})} : x \in S}

\* the members of a Python set
Members(pyset) == {pyset[i] : i \in DOMAIN pyset}

\* a coordinate is a multiple of 1/DEG degree
DEG == 1024
\* float('nan'), outside the range of every coordinate
FloatNaN == 1000000

\* sample points (lat, lon): on the equator and prime meridian, two
\* neighbouring cells at 40.5N (74W and 80W), one without a latitude
Points ==
    {[lat |-> 0, lon |-> 0],
     [lat |-> 41472, lon |-> -75776],
     [lat |-> 41472, lon |-> -81920],
     [lat |-> FloatNaN, lon |-> 10240]}

Min2(x, y) == IF x <= y THEN x ELSE y

\* a missing value (None, NaN) among symbols
NaN == <<-1>>

\* a call that returned normally / that raised
Returned(v) == [raised |-> "none", value |-> v]
Raised(e)   == [raised |-> e, value |-> <<>>]

---------------------------------------------------------------------------
(* window(iterable, size): similarity.py lines 13-19 *)

\* itertools.tee(iterable, size): size independent iterators over the same
\* items; each is modelled by the number of items it has consumed.
tee(iterable, size) == [j \in 1..size |-> 0]

\* next(each, None): consume one item; at the end the default is returned
\* and the iterator stays exhausted.
next_or_none(pos, iterable) == Min2(pos + 1, Len(iterable))

\* for each in iters[i:]: next(each, None)   (Python index i is TLA+ index i+1)
advance_from(iters, i, iterable) ==
    [j \in DOMAIN iters |-> IF j > i THEN next_or_none(iters[j], iterable) ELSE iters[j]]

\* every iterator after the first advanced once only
advance_loop_once(iters, i, size, iterable) ==
    IF i >= size THEN iters ELSE advance_from(iters, i, iterable)

\* for i in range(1, size): ...
RECURSIVE advance_loop(_, _, _, _)
advance_loop(iters, i, size, iterable) ==
    IF i >= size THEN iters
    ELSE advance_loop(advance_from(iters, i, iterable), i + 1, size, iterable)

\* itertools.zip_longest(*iters): rounds go on until every iterator is
\* exhausted, None standing in for the missing items
RECURSIVE zip_longest(_, _)
zip_longest(iters, iterable) ==
    IF \A j \in DOMAIN iters : iters[j] >= Len(iterable)
    THEN <<>>
    ELSE <<[j \in DOMAIN iters |->
              IF iters[j] >= Len(iterable) THEN NaN ELSE iterable[iters[j] + 1]]>>
         \o zip_longest([j \in DOMAIN iters |-> next_or_none(iters[j], iterable)],
                        iterable)

\* zip(*iters): one tuple per round, until the first iterator that is
\* exhausted; zip() of no iterators yields nothing.
RECURSIVE zip(_, _)
zip(iters, iterable) ==
    IF DOMAIN iters = {} \/ \E j \in DOMAIN iters : iters[j] >= Len(iterable)
    THEN <<>>
    ELSE <<[j \in DOMAIN iters |-> iterable[iters[j] + 1]]>>
         \o zip([j \in DOMAIN iters |-> iters[j] + 1], iterable)

window(iterable, size) ==
    zip(advance_loop(tee(iterable, size), 1, size, iterable), iterable)

---------------------------------------------------------------------------
(* common_prefix_len(a, b): similarity.py lines 22-28 *)

\* for i in range(stop): if a[i] != b[i]: return i
\* return min_len
\* (indexing a string past its end raises IndexError)
RECURSIVE prefix_loop(_, _, _, _, _)
prefix_loop(a, b, i, stop, min_len) ==
    IF i >= stop THEN Returned(min_len)
    ELSE IF i >= Len(a) \/ i >= Len(b) THEN Raised("IndexError")
    ELSE IF a[i + 1] # b[i + 1] THEN Returned(i)
    ELSE prefix_loop(a, b, i + 1, stop, min_len)

\* the loop bound taken as the longer length
common_prefix_len_max(a, b) ==
    prefix_loop(a, b, 0, IF Len(a) >= Len(b) THEN Len(a) ELSE Len(b),
                Min2(Len(a), Len(b)))

common_prefix_len(a, b) ==
    prefix_loop(a, b, 0, Min2(Len(a), Len(b)), Min2(Len(a), Len(b)))

---------------------------------------------------------------------------
(* make_shingles(raw, size): similarity.py lines 32-36 *)

\* the first place filled with the first value
shift_bfill(raw) == [i \in DOMAIN raw |-> IF i = 1 THEN raw[1] ELSE raw[i - 1]]

\* every value moved two places down
shift_two(raw) == [i \in DOMAIN raw |-> IF i <= 2 THEN NaN ELSE raw[i - 2]]

\* raw.shift(): every value moves one place down, the first place is NaN
shift(raw) == [i \in DOMAIN raw |-> IF i = 1 THEN NaN ELSE raw[i - 1]]

\* element-wise != of two values: a missing value differs from everything
ne(x, y) == x = NaN \/ y = NaN \/ x # y

\* raw[mask]: the values whose mask is True, in order
RECURSIVE boolean_index(_, _)
boolean_index(raw, mask) ==
    IF raw = <<>> THEN <<>>
    ELSE (IF Head(mask) THEN <<Head(raw)>> ELSE <<>>)
         \o boolean_index(Tail(raw), Tail(mask))

\* nothing dropped
no_repeats_kept(raw) == raw

\* no_repeats = raw[raw.shift() != raw]
no_repeats(raw) ==
    LET shifted == shift(raw)
    IN  boolean_index(raw, [i \in DOMAIN raw |-> ne(shifted[i], raw[i])])

\* sep.join(group)
RECURSIVE join(_, _)
join(sep, group) ==
    IF group = <<>> THEN <<>>
    ELSE IF Len(group) = 1 THEN group[1]
    ELSE group[1] \o sep \o join(sep, Tail(group))

\* set([' '.join(group) for group in window(no_repeats, size)])
make_shingles(raw, size) ==
    LET groups == window(no_repeats(raw), size)
    IN  {join(SPACE, groups[i]) : i \in DOMAIN groups}

---------------------------------------------------------------------------
(* mmh3.hash(key, seed, signed): MurmurHash3_x86_32 of the UTF-8 bytes of   *)
(* key, called at similarity.py line 42.  A 32-bit word is the pair         *)
(* <<high 16 bits, low 16 bits>>; every operation is modulo 2^32.           *)

W16 == 65536

RECURSIVE xor_bits(_, _, _)
xor_bits(x, y, n) ==
    IF n = 0 THEN 0
    ELSE ((x + y) % 2) + 2 * xor_bits(x \div 2, y \div 2, n - 1)

xor32(x, y) == <<xor_bits(x[1], y[1], 16), xor_bits(x[2], y[2], 16)>>

add32(x, y) ==
    LET lo == x[2] + y[2]
    IN  <<(x[1] + y[1] + (lo \div W16)) % W16, lo % W16>>

\* x * y modulo 2^32, by 8-bit limbs so that no partial product overflows
mul32(x, y) ==
    LET a == <<x[2] % 256, x[2] \div 256, x[1] % 256, x[1] \div 256>>
        b == <<y[2] % 256, y[2] \div 256, y[1] % 256, y[1] \div 256>>
        c0 == a[1] * b[1]
        c1 == a[1] * b[2] + a[2] * b[1] + (c0 \div 256)
        c2 == a[1] * b[3] + a[2] * b[2] + a[3] * b[1] + (c1 \div 256)
        c3 == a[1] * b[4] + a[2] * b[3] + a[3] * b[2] + a[4] * b[1] + (c2 \div 256)
    IN  <<(c3 % 256) * 256 + (c2 % 256), (c1 % 256) * 256 + (c0 % 256)>>

\* rotate left by r bits, 0 < r < 16
rotl32(x, r) ==
    LET up == 2 ^ r
        down == 2 ^ (16 - r)
    IN  <<(x[1] % down) * up + (x[2] \div down), (x[2] % down) * up + (x[1] \div down)>>

\* logical shift right by r bits, 0 < r <= 16
shr32(x, r) ==
    LET down == 2 ^ r
        up == 2 ^ (16 - r)
    IN  <<x[1] \div down, ((x[1] % down) * up + (x[2] \div down)) % W16>>

murmur_c1 == <<52382, 11601>>   \* 0xcc9e2d51
murmur_c2 == <<7047, 13715>>    \* 0x1b873593
murmur_n  == <<58964, 27492>>   \* 0xe6546b64
fmix_c1   == <<34283, 51819>>   \* 0x85ebca6b
fmix_c2   == <<49842, 44597>>   \* 0xc2b2ae35

\* k *= c1; k = ROTL32(k, 15); k *= c2
mix_k(k) == mul32(rotl32(mul32(k, murmur_c1), 15), murmur_c2)

\* the body: one little-endian 4-byte block at a time
RECURSIVE murmur_body(_, _, _)
murmur_body(key, h, i) ==
    IF i + 3 > Len(key) THEN h
    ELSE LET k == <<key[i + 3] * 256 + key[i + 2], key[i + 1] * 256 + key[i]>>
             h1 == xor32(h, mix_k(k))
             h2 == add32(mul32(rotl32(h1, 13), <<0, 5>>), murmur_n)
         IN  murmur_body(key, h2, i + 4)

\* the tail: the 1 to 3 bytes left after the last whole block
murmur_tail(key, h) ==
    LET n == Len(key) % 4
        start == Len(key) - n
        k == <<IF n >= 3 THEN key[start + 3] ELSE 0,
               (IF n >= 2 THEN key[start + 2] * 256 ELSE 0)
               + (IF n >= 1 THEN key[start + 1] ELSE 0)>>
    IN  IF n = 0 THEN h ELSE xor32(h, mix_k(k))

\* the finalization mix
fmix32(h) ==
    LET h1 == xor32(h, shr32(h, 16))
        h2 == mul32(h1, fmix_c1)
        h3 == xor32(h2, shr32(h2, 13))
        h4 == mul32(h3, fmix_c2)
    IN  xor32(h4, shr32(h4, 16))

murmur3_32(key, seed) ==
    LET h == murmur_tail(key, murmur_body(key, <<0, seed>>, 1))
    IN  fmix32(xor32(h, <<0, Len(key)>>))

\* signed=True returns the word as a two's complement int32: the high half
\* then ranges over -32768..32767
mmh3_hash(key, seed, signed) ==
    LET h == murmur3_32(key, seed)
    IN  IF signed /\ h[1] >= 32768 THEN <<h[1] - W16, h[2]>> ELSE h

\* x < y on hash values
hash_lt(x, y) == x[1] < y[1] \/ (x[1] = y[1] /\ x[2] < y[2])

---------------------------------------------------------------------------
(* b1_minhash_sig(shingles, components): similarity.py lines 39-45 *)

\* min(list): the first smallest item; an empty list raises ValueError
RECURSIVE min_scan(_, _, _)
min_scan(list, i, best) ==
    IF i > Len(list) THEN best
    ELSE min_scan(list, i + 1, IF hash_lt(list[i], best) THEN list[i] ELSE best)

\* list[0]
list_first(list) ==
    IF list = <<>> THEN Raised("IndexError") ELSE Returned(list[1])

\* min(list, default=0xFFFFFFFF)
list_min_default(list) ==
    IF list = <<>> THEN Returned(<<65535, 65535>>)
    ELSE Returned(min_scan(list, 2, list[1]))

list_min(list) ==
    IF list = <<>> THEN Raised("ValueError")
    ELSE Returned(min_scan(list, 2, list[1]))

\* the hash left signed
sig_component_signed(shingles, seed) ==
    LET m == list_min([i \in DOMAIN shingles |-> mmh3_hash(shingles[i], seed, TRUE)])
    IN  IF m.raised # "none" THEN m ELSE Returned(m.value[2] % 2)

\* min([mmh3.hash(shingle, seed, False) for shingle in shingles]) & 1
sig_component(shingles, seed) ==
    LET m == list_min([i \in DOMAIN shingles |-> mmh3_hash(shingles[i], seed, FALSE)])
    IN  IF m.raised # "none" THEN m ELSE Returned(m.value[2] % 2)

\* sig = [... for seed in range(components)]: the first component that
\* raises ends the call
b1_minhash_sig(shingles, components) ==
    LET sig == [i \in 1..components |-> sig_component(shingles, i - 1)]
    IN  IF \E i \in 1..components : sig[i].raised # "none"
        THEN Raised("ValueError")
        ELSE Returned([i \in 1..components |-> sig[i].value])

---------------------------------------------------------------------------
(* pygeohash.encode(latitude, longitude, precision), called at              *)
(* similarity.py line 50.  A coordinate is a multiple of 1/1024 degree, so  *)
(* that every midpoint of the bisection is exact, or the float NaN.         *)

\* x > mid on floats: every comparison with NaN is False
float_gt(x, mid) == x # FloatNaN /\ x > mid

\* __base32 = '0123456789bcdefghjkmnpqrstuvwxyz'
base32 ==
    <<48, 49, 50, 51, 52, 53, 54, 55, 56, 57, 98, 99, 100, 101, 102, 103,
      104, 106, 107, 109, 110, 112, 113, 114, 115, 116, 117, 118, 119, 120,
      121, 122>>

\* bits = [16, 8, 4, 2, 1]
geohash_bits == <<16, 8, 4, 2, 1>>

\* while len(geohash) < precision: ...   (bit is the Python index into bits)
RECURSIVE encode_loop(_, _, _, _, _, _, _, _, _)
encode_loop(latitude, longitude, precision, lat_interval, lon_interval, geohash, bit, ch, even) ==
    IF Len(geohash) >= precision THEN geohash
    ELSE LET cur == IF even THEN lon_interval ELSE lat_interval
             mid == (cur[1] + cur[2]) \div 2
             up  == float_gt(IF even THEN longitude ELSE latitude, mid)
             nxt == IF up THEN <<mid, cur[2]>> ELSE <<cur[1], mid>>
             ch1 == IF up THEN ch + geohash_bits[bit + 1] ELSE ch
         IN  encode_loop(latitude, longitude, precision,
                         IF even THEN lat_interval ELSE nxt,
                         IF even THEN nxt ELSE lon_interval,
                         IF bit < 4 THEN geohash ELSE Append(geohash, base32[ch1 + 1]),
                         IF bit < 4 THEN bit + 1 ELSE 0,
                         IF bit < 4 THEN ch1 ELSE 0,
                         ~even)

pygeohash_encode(latitude, longitude, precision) ==
    encode_loop(latitude, longitude, precision,
                <<-90 * DEG, 90 * DEG>>, <<-180 * DEG, 180 * DEG>>,
                <<>>, 0, 0, TRUE)

---------------------------------------------------------------------------
(* geohash_track(track, precision): similarity.py lines 48-51 *)

\* latitude and longitude handed over in the wrong order
geohash_track_swapped(track, precision) ==
    [i \in DOMAIN track |->
        pygeohash_encode(track[i].lon, track[i].lat, precision)]

\* track.apply(lambda pt: ..., axis=1): the function applied to each row, in
\* row order; a frame without rows comes back without rows
geohash_track(track, precision) ==
    IF track = <<>> THEN <<>>
    ELSE [i \in DOMAIN track |->
             pygeohash_encode(track[i].lat, track[i].lon, precision)]

---------------------------------------------------------------------------
(* load_activities(data_dir, activities_meta, resample_freq):               *)
(* model.py lines 70-111.  A track is a sequence of rows [ts, lat, lon] in  *)
(* increasing ts (the index); a timestamp is a whole number of seconds and  *)
(* resample_freq a whole number of seconds.                                *)

\* the position recorded at second ts (the rider moves as time passes)
PositionAt(ts) == [lat |-> 41472 + ts, lon |-> -75776 + ts]

\* the timestamps of a recording: one or more, increasing
RecordTimes ==
    {s \in SeqsUpTo(0..MaxTime, MaxSamples) :
        Len(s) >= 1 /\ \A i \in 1..(Len(s) - 1) : s[i] < s[i + 1]}

\* load_gpx (model.py lines 38-50): every track point has a latitude and a
\* longitude
GpxTracks ==
    {[i \in DOMAIN s |-> [ts |-> s[i], lat |-> PositionAt(s[i]).lat,
                          lon |-> PositionAt(s[i]).lon]] : s \in RecordTimes}

\* load_fit (model.py lines 53-67): a record without position_lat and
\* position_long gives a row whose lat and lon are missing
FitTracks ==
    UNION {{[i \in DOMAIN s |->
               [ts |-> s[i],
                lat |-> IF fix[i] THEN PositionAt(s[i]).lat ELSE FloatNaN,
                lon |-> IF fix[i] THEN PositionAt(s[i]).lon ELSE FloatNaN]] :
             fix \in [DOMAIN s -> BOOLEAN]} : s \in RecordTimes}

\* what Path(data_dir) / Filename may be: nothing, a GPX or FIT recording, or
\* a file of another type
Files ==
    {[is_file |-> FALSE, suffixes |-> <<>>, track |-> <<>>],
     [is_file |-> TRUE, suffixes |-> <<".csv">>, track |-> <<>>]}
    \cup {[is_file |-> TRUE, suffixes |-> <<".gpx">>, track |-> tr] : tr \in GpxTracks}
    \cup {[is_file |-> TRUE, suffixes |-> <<".fit", ".gz">>, track |-> tr] : tr \in FitTracks}

\* x in suffixes
in_suffixes(x, suffixes) == \E i \in DOMAIN suffixes : suffixes[i] = x

\* df[~(df['lat'].isna() | df['lon'].isna())]
strip_unknown(df) ==
    SelectSeq(df, LAMBDA row : ~(row.lat = FloatNaN \/ row.lon = FloatNaN))

\* the index resample(freq) lays out for upsampling: the left edges of the
\* bins, from the bin of the first row to the bin of the last row
resample_index(df, freq) ==
    IF df = <<>> THEN <<>>
    ELSE LET first == (df[1].ts \div freq) * freq
             last  == (df[Len(df)].ts \div freq) * freq
         IN  [j \in 1..((last - first) \div freq + 1) |-> first + (j - 1) * freq]

\* Index.get_indexer(target, 'pad', limit): for new[j] the last old label at
\* or before it; an inexact match is made for at most `limit` consecutive
\* targets after a label.  0 stands for pandas' -1, no match.
pad_indexer(old, new, j, limit) ==
    LET before == {i \in DOMAIN old : old[i] <= new[j]}
    IN  IF before = {} THEN 0
        ELSE LET i == CHOOSE m \in before : \A n \in before : n <= m
                 filled == Cardinality({k \in 1..(j - 1) : new[k] > old[i]})
             IN  IF old[i] = new[j] \/ filled < limit THEN i ELSE 0

\* Index.get_indexer(target, 'backfill', limit): the first old label at or
\* after new[j], with the same limit counted backwards
backfill_indexer(old, new, j, limit) ==
    LET after == {i \in DOMAIN old : old[i] >= new[j]}
    IN  IF after = {} THEN 0
        ELSE LET i == CHOOSE m \in after : \A n \in after : m <= n
                 filled == Cardinality({k \in (j + 1)..Len(new) : new[k] < old[i]})
             IN  IF old[i] = new[j] \/ filled < limit THEN i ELSE 0

\* abs(target - index[indexer]); Python's index[-1] is the last label
indexer_distance(old, target, indexer) ==
    LET label == old[IF indexer = 0 THEN Len(old) ELSE indexer]
    IN  IF target >= label THEN target - label ELSE label - target

\* Index._get_nearest_indexer: the pad match when it is strictly nearer or
\* when backfill has none, else the backfill match
nearest_indexer(old, new, j, limit) ==
    LET left  == pad_indexer(old, new, j, limit)
        right == backfill_indexer(old, new, j, limit)
    IN  IF indexer_distance(old, new[j], left) < indexer_distance(old, new[j], right)
           \/ right = 0
        THEN left ELSE right

\* df.resample(freq).nearest(limit): df reindexed onto the resampling index;
\* a label without a match gets a row of missing values
resample_nearest(df, freq, limit) ==
    LET old == [i \in DOMAIN df |-> df[i].ts]
        new == resample_index(df, freq)
    IN  [j \in DOMAIN new |->
            LET i == nearest_indexer(old, new, j, limit)
            IN  IF i = 0 THEN [ts |-> new[j], lat |-> FloatNaN, lon |-> FloatNaN]
                ELSE [ts |-> new[j], lat |-> df[i].lat, lon |-> df[i].lon]]

\* for _, activity in activities_meta.iterrows(): ...   (lines 81-108)
\* gives the tracks list, or the ValueError of an unknown file type
RECURSIVE load_loop(_, _, _, _, _)
load_loop(data_dir, activities_meta, resample_freq, i, tracks) ==
    IF i > Len(activities_meta) THEN Returned(tracks)
    ELSE LET file == data_dir[activities_meta[i].Filename]
         IN  IF ~file.is_file
             THEN load_loop(data_dir, activities_meta, resample_freq, i + 1, tracks)
             ELSE IF ~(in_suffixes(".gpx", file.suffixes) \/ in_suffixes(".fit", file.suffixes))
             THEN Raised("ValueError")
             ELSE load_loop(data_dir, activities_meta, resample_freq, i + 1,
                            Append(tracks,
                                   resample_nearest(strip_unknown(file.track),
                                                    resample_freq, 1)))

\* activities_meta['track'] = tracks: a list that is not as long as the
\* table raises ValueError
set_track_column(activities_meta, tracks) ==
    IF Len(tracks) # Len(activities_meta) THEN Raised("ValueError")
    ELSE Returned([i \in DOMAIN activities_meta |->
                      [Filename |-> activities_meta[i].Filename, track |-> tracks[i]]])

load_activities(data_dir, activities_meta, resample_freq) ==
    LET loaded == load_loop(data_dir, activities_meta, resample_freq, 1, <<>>)
    IN  IF loaded.raised # "none" THEN loaded
        ELSE set_track_column(activities_meta, loaded.value)

---------------------------------------------------------------------------
(* The animation: animate.py (animate_strava.py lines 157-228 are the same  *)
(* functions under their earlier names).  artists is the record of the      *)
(* time text, the head dot's offsets and one line per track; a line holds   *)
(* its lon and lat data and whether they are Python lists.                  *)

\* the time indices '07:00:00', '07:00:15', '07:01:00' ('HH:MM:SS')
TimeIndices ==
    <<<<48, 55, 58, 48, 48, 58, 48, 48>>,
      <<48, 55, 58, 48, 48, 58, 49, 53>>,
      <<48, 55, 58, 48, 49, 58, 48, 48>>>>

\* track k's row at the j-th time index: every track has its own route
TrackRow(k, j) ==
    [idx |-> TimeIndices[j], lat |-> 41472 + 16 * k + j, lon |-> -75776 + 16 * k + j]

\* the same row with the coordinates missing: a label the resampling left
\* unmatched inside a gap
GapRow(j) == [idx |-> TimeIndices[j], lat |-> FloatNaN, lon |-> FloatNaN]

\* the rows of a track (a DataFrame indexed by time index, each label once):
\* any of the time indices, in order; the middle row of a full track may be
\* a gap row
TracksOf(k) ==
    {[i \in 1..Len(js) |-> TrackRow(k, js[i])] :
        js \in {s \in SeqsUpTo(DOMAIN TimeIndices, Len(TimeIndices)) :
                   \A i \in 1..(Len(s) - 1) : s[i] < s[i + 1]}}
    \cup {<<TrackRow(k, 1), GapRow(2), TrackRow(k, 3)>>}

\* the lists of tracks an animation may be set up with
RECURSIVE TrackLists(_)
TrackLists(n) ==
    IF n = 0 THEN {<<>>}
    ELSE TrackLists(n - 1)
         \cup {Append(l, tr) : l \in {m \in TrackLists(n - 1) : Len(m) = n - 1},
                               tr \in TracksOf(n)}

\* init_artists (animate.py lines 27-58): an empty text, an empty scatter
\* and one empty line per track; plot([], []) keeps its data as arrays
init_artists(n_tracks) ==
    [time_text |-> <<>>,
     head_offsets |-> <<>>,
     lines |-> [k \in 1..n_tracks |-> [lon |-> <<>>, lat |-> <<>>, is_list |-> FALSE]]]

\* init_frame (animate.py lines 61-72)
init_frame(arts) ==
    [time_text |-> <<>>,
     head_offsets |-> <<>>,
     lines |-> [k \in DOMAIN arts.lines |-> [lon |-> <<>>, lat |-> <<>>, is_list |-> TRUE]]]

\* get_point (animate.py lines 95-106): track.loc[time_idx], or None on
\* KeyError
get_point(track, time_idx) ==
    IF \E i \in DOMAIN track : track[i].idx = time_idx
    THEN [found |-> TRUE,
          row |-> track[CHOOSE i \in DOMAIN track : track[i].idx = time_idx]]
    ELSE [found |-> FALSE, row |-> <<>>]

\* for artist, track in zip(track_artists, tracks): ...   (lines 120-127)
\* k is the next pair; gives the lines and head_lonlat
RECURSIVE update_loop(_, _, _, _, _)
update_loop(lines, trks, time_idx, k, head_lonlat) ==
    IF k > Min2(Len(lines), Len(trks))
    THEN [lines |-> lines, head_lonlat |-> head_lonlat]
    ELSE LET point == get_point(trks[k], time_idx)
         IN  IF point.found
             THEN update_loop(
                      [lines EXCEPT ![k] =
                          [lon |-> Append(lines[k].lon, point.row.lon),
                           lat |-> Append(lines[k].lat, point.row.lat),
                           is_list |-> lines[k].is_list]],
                      trks, time_idx, k + 1,
                      Append(head_lonlat, <<point.row.lon, point.row.lat>>))
             ELSE update_loop(lines, trks, time_idx, k + 1, head_lonlat)

\* the head dot left as it was when no track has a point
update_artists_keep_head(arts, trks, time_idx) ==
    LET done == update_loop(arts.lines, trks, time_idx, 1, <<>>)
    IN  [time_text |-> SubSeq(time_idx, 1, 5),
         head_offsets |-> IF done.head_lonlat # <<>> THEN done.head_lonlat
                          ELSE arts.head_offsets,
         lines |-> done.lines]

\* update_artists (animate.py lines 109-132)
update_artists(arts, trks, time_idx) ==
    LET done == update_loop(arts.lines, trks, time_idx, 1, <<>>)
    IN  [time_text |-> SubSeq(time_idx, 1, 5),
         head_offsets |-> IF done.head_lonlat # <<>> THEN done.head_lonlat ELSE <<>>,
         lines |-> done.lines]

---------------------------------------------------------------------------
(* The caller *)

\* no call in progress
Idle ==
    /\ fn = "idle"
    /\ args = [none |-> TRUE]
    /\ ret = Returned(<<>>)

Init ==
    /\ Idle
    /\ anim_tracks = <<>>
    /\ artists = init_artists(0)
    /\ frames = <<>>

CallWindow ==
    /\ fn = "idle"
    /\ \E iterable \in SeqsUpTo(Symbols, MaxLen), size \in 1..MaxSize :
         /\ fn' = "window"
         /\ args' = [iterable |-> iterable, size |-> size]
         /\ ret' = Returned(window(iterable, size))
         /\ UNCHANGED animation

CallCommonPrefixLen ==
    /\ fn = "idle"
    /\ \E a \in SeqsUpTo(Chars, MaxStr), b \in SeqsUpTo(Chars, MaxStr) :
         /\ fn' = "common_prefix_len"
         /\ args' = [a |-> a, b |-> b]
         /\ ret' = common_prefix_len(a, b)
         /\ UNCHANGED animation

CallMakeShingles ==
    /\ fn = "idle"
    /\ \E raw \in SeqsUpTo(Symbols, MaxLen), size \in 1..MaxSize :
         /\ fn' = "make_shingles"
         /\ args' = [raw |-> raw, size |-> size]
         /\ ret' = Returned(make_shingles(raw, size))
         /\ UNCHANGED animation

\* The set handed to b1_minhash_sig is one make_shingles built; a Python set
\* iterates its members in an order the caller does not control.
CallB1MinhashSig ==
    /\ fn = "idle"
    /\ \E raw \in SeqsUpTo(Symbols, MaxHashLen), size \in 1..MaxSize,
          components \in 0..MaxComponents :
         \E shingles \in PySet(make_shingles(raw, size)) :
            /\ fn' = "b1_minhash_sig"
            /\ args' = [shingles |-> shingles, components |-> components]
            /\ ret' = b1_minhash_sig(shingles, components)
            /\ UNCHANGED animation

CallGeohashTrack ==
    /\ fn = "idle"
    /\ \E track \in SeqsUpTo(Points, MaxTrack), precision \in 1..MaxPrecision :
         /\ fn' = "geohash_track"
         /\ args' = [track |-> track, precision |-> precision]
         /\ ret' = Returned(geohash_track(track, precision))
         /\ UNCHANGED animation

\* The metadata table has one row per activity, row i naming file i of
\* data_dir.
CallLoadActivities ==
    /\ fn = "idle"
    /\ \E n \in 0..MaxRows, resample_freq \in 1..MaxFreq :
         \E data_dir \in [1..n -> Files] :
            LET activities_meta == [i \in 1..n |-> [Filename |-> i]]
            IN  /\ fn' = "load_activities"
                /\ args' = [data_dir |-> data_dir, activities_meta |-> activities_meta,
                            resample_freq |-> resample_freq]
                /\ ret' = load_activities(data_dir, activities_meta, resample_freq)
                /\ UNCHANGED animation

Return ==
    /\ fn # "idle"
    /\ fn' = "idle"
    /\ args' = [none |-> TRUE]
    /\ ret' = Returned(<<>>)
    /\ UNCHANGED animation

Next ==
    \/ CallWindow
    \/ CallCommonPrefixLen
    \/ CallMakeShingles
    \/ CallB1MinhashSig
    \/ CallGeohashTrack
    \/ Return

Spec == Init /\ [][Next]_vars

\* the loader alone
NextLoad ==
    \/ CallLoadActivities
    \/ Return

SpecLoad == Init /\ [][NextLoad]_vars

---------------------------------------------------------------------------
(* The animation's frames: setup_animation (animate.py lines 135-162) makes *)
(* the artists for its tracks; FuncAnimation then calls init_frame and, for *)
(* each frame, update_artists with the frame's time index.                  *)

InitAnimate ==
    /\ Idle
    /\ anim_tracks \in TrackLists(MaxTracks)
    /\ artists = init_artists(Len(anim_tracks))
    /\ frames = <<>>

InitFrame ==
    /\ artists' = init_frame(artists)
    /\ frames' = <<>>
    /\ UNCHANGED <<fn, args, ret, anim_tracks>>

\* a line's data can be appended to once init_frame has made them lists
UpdateArtists ==
    /\ \A k \in DOMAIN artists.lines : artists.lines[k].is_list
    /\ Len(frames) < MaxFrames
    /\ \E j \in DOMAIN TimeIndices :
         /\ artists' = update_artists(artists, anim_tracks, TimeIndices[j])
         /\ frames' = Append(frames, TimeIndices[j])
    /\ UNCHANGED <<fn, args, ret, anim_tracks>>

NextAnimate ==
    \/ InitFrame
    \/ UpdateArtists

SpecAnimate == InitAnimate /\ [][NextAnimate]_vars

---------------------------------------------------------------------------
(* C1: for 1 <= n <= len(s), window(s, n) yields exactly len(s) - n + 1     *)
(* tuples, each of length n, and the i-th tuple is (s[i], ..., s[i+n-1]):   *)
(* stride one, input order kept.                                           *)
C1_WindowTuples ==
    (fn = "window" /\ args.size <= Len(args.iterable)) =>
        /\ ret.raised = "none"
        /\ Len(ret.value) = Len(args.iterable) - args.size + 1
        /\ \A i \in 1..Len(ret.value) :
             /\ Len(ret.value[i]) = args.size
             /\ \A j \in 1..args.size : ret.value[i][j] = args.iterable[i + j - 1]

\* a window call that yields at least two tuples of at least two items
C1_Witness ==
    /\ fn = "window"
    /\ args.size >= 2
    /\ Len(args.iterable) >= args.size + 1
    /\ Len(ret.value) >= 2
    /\ ret.value[1] # ret.value[2]

(* C2: for n > len(s) (the empty s included), window(s, n) yields nothing:  *)
(* no partial or padded tuple.                                             *)
C2_WindowShortInput ==
    (fn = "window" /\ args.size > Len(args.iterable)) =>
        (ret.raised = "none" /\ ret.value = <<>>)

\* a window call on a non-empty sequence shorter than the window
C2_Witness ==
    /\ fn = "window"
    /\ Len(args.iterable) >= 1
    /\ args.size > Len(args.iterable)
    /\ ret.value = <<>>

(* C3: common_prefix_len(a, b) is the largest k <= min(len(a), len(b)) with *)
(* a[i] = b[i] for every i < k; it is 0 when the strings differ at position *)
(* 0 or when either is empty, len(a) when a = b, and it never fails.        *)
C3_CommonPrefixLen ==
    fn = "common_prefix_len" =>
        LET a == args.a
            b == args.b
            k == ret.value
            Agree(n) == \A i \in 1..n : a[i] = b[i]
        IN  /\ ret.raised = "none"
            /\ k \in 0..Min2(Len(a), Len(b))
            /\ Agree(k)
            /\ \A n \in (k + 1)..Min2(Len(a), Len(b)) : ~Agree(n)
            /\ (a = <<>> \/ b = <<>>) => k = 0
            /\ (a # <<>> /\ b # <<>> /\ a[1] # b[1]) => k = 0
            /\ (a = b) => k = Len(a)

\* two different strings that share a proper, non-empty prefix
C3_Witness ==
    /\ fn = "common_prefix_len"
    /\ ret.value >= 1
    /\ ret.value < Len(args.a)
    /\ ret.value < Len(args.b)

\* every run of identical adjacent symbols collapsed into its first symbol
RECURSIVE Collapse(_)
Collapse(s) ==
    IF Len(s) <= 1 THEN s
    ELSE IF s[1] = s[2] THEN Collapse(Tail(s))
    ELSE <<s[1]>> \o Collapse(Tail(s))

\* the symbols of w with one space between neighbours
RECURSIVE SpaceJoined(_)
SpaceJoined(w) ==
    IF Len(w) = 1 THEN w[1]
    ELSE SpaceJoined(SubSeq(w, 1, Len(w) - 1)) \o <<32>> \o w[Len(w)]

(* C4: make_shingles(raw, size) is the set of the space-joined windows of   *)
(* `size` consecutive symbols of raw with every run of identical adjacent   *)
(* symbols collapsed into one (the first element always kept); a shingle    *)
(* that occurs several times is one member.                                *)
C4_MakeShingles ==
    fn = "make_shingles" =>
        LET d == Collapse(args.raw)
        IN  /\ ret.raised = "none"
            /\ ret.value = {SpaceJoined(SubSeq(d, i, i + args.size - 1)) :
                               i \in 1..(Len(d) - args.size + 1)}

\* a call whose input has a repeat to collapse and whose windows repeat a
\* shingle: fewer shingles than windows
C4_Witness ==
    /\ fn = "make_shingles"
    /\ args.size >= 2
    /\ Len(Collapse(args.raw)) < Len(args.raw)
    /\ ret.value # {}
    /\ Cardinality(ret.value) < Len(Collapse(args.raw)) - args.size + 1

(* C5: make_shingles returns the empty set whenever raw is empty or fewer   *)
(* than `size` symbols are left after collapsing consecutive repeats, even  *)
(* when raw itself has `size` or more elements.                            *)
C5_EmptyShingles ==
    (fn = "make_shingles" /\ Len(Collapse(args.raw)) < args.size) =>
        (ret.raised = "none" /\ ret.value = {})

\* a track that stays in one cell: long enough raw, too short once collapsed
C5_Witness ==
    /\ fn = "make_shingles"
    /\ Len(args.raw) >= args.size
    /\ args.size >= 2
    /\ Len(Collapse(args.raw)) < args.size
    /\ ret.value = {}

(* C6: deduplication of consecutive repeats is idempotent: applied to an    *)
(* already deduplicated sequence it returns the same sequence, so           *)
(* make_shingles(dedup(raw), size) = make_shingles(raw, size), and the      *)
(* deduplicated sequence never has two equal adjacent symbols.              *)
C6_DedupIdempotent ==
    fn = "make_shingles" =>
        LET d == no_repeats(args.raw)
        IN  /\ no_repeats(d) = d
            /\ make_shingles(d, args.size) = ret.value
            /\ \A i \in 1..(Len(d) - 1) : d[i] # d[i + 1]

\* a call where deduplication removed something and shingles remain
C6_Witness ==
    /\ fn = "make_shingles"
    /\ no_repeats(args.raw) # args.raw
    /\ Cardinality(ret.value) >= 2

\* x <= y on unsigned 32-bit words
WordLeq(x, y) == x[1] < y[1] \/ (x[1] = y[1] /\ x[2] <= y[2])

(* C7: for a non-empty shingle set S and components >= 1, b1_minhash_sig    *)
(* returns exactly `components` values, and the value at position s is the  *)
(* least-significant bit of the minimum, over the shingles of S, of the     *)
(* unsigned 32-bit hash seeded with s; the length does not depend on the    *)
(* size of S.                                                              *)
C7_MinhashSig ==
    (fn = "b1_minhash_sig" /\ args.shingles # <<>> /\ args.components >= 1) =>
        LET S == Members(args.shingles)
        IN  /\ ret.raised = "none"
            /\ Len(ret.value) = args.components
            /\ \A s \in 0..(args.components - 1) :
                 \E sh \in S :
                    LET h == murmur3_32(sh, s)
                    IN  /\ \A other \in S : WordLeq(h, murmur3_32(other, s))
                        /\ ret.value[s + 1] = h[2] % 2
                        /\ ret.value[s + 1] \in {0, 1}

\* a signature of two components over a set of two or more shingles whose
\* bits differ
C7_Witness ==
    /\ fn = "b1_minhash_sig"
    /\ Len(args.shingles) >= 2
    /\ args.components >= 2
    /\ ret.raised = "none"
    /\ ret.value[1] # ret.value[2]

(* C8: b1_minhash_sig depends only on set membership: whatever the order in *)
(* which the set yields its shingles, the same members and the same         *)
(* components give the identical bit sequence (Hamming distance 0).         *)
C8_MinhashOrderFree ==
    fn = "b1_minhash_sig" =>
        \A other \in PySet(Members(args.shingles)) :
            b1_minhash_sig(other, args.components) = ret

\* a signature where the shingle the set yields first is not the minimum
\* for seed 0, over a set of two or more shingles
C8_Witness ==
    /\ fn = "b1_minhash_sig"
    /\ Len(args.shingles) >= 2
    /\ args.components >= 2
    /\ ret.raised = "none"
    /\ \E i \in 2..Len(args.shingles) :
          ~WordLeq(murmur3_32(args.shingles[1], 0), murmur3_32(args.shingles[i], 0))
    /\ murmur3_32(args.shingles[1], 0)[2] % 2 # ret.value[1]

(* C9: for an empty shingle set b1_minhash_sig follows one policy: the call *)
(* fails with ValueError, or returns the all-zero signature of length       *)
(* `components`; for every components >= 1 it is the same one, the failure, *)
(* so no signature that could pass for a valid one is returned.             *)
C9_EmptySetPolicy ==
    (fn = "b1_minhash_sig" /\ args.shingles = <<>>) =>
        /\ \/ ret.raised = "ValueError"
           \/ /\ ret.raised = "none"
              /\ ret.value = [i \in 1..args.components |-> 0]
        /\ args.components >= 1 => ret.raised = "ValueError"

\* a call on the empty set asking for two components or more
C9_Witness ==
    /\ fn = "b1_minhash_sig"
    /\ args.shingles = <<>>
    /\ args.components >= 2
    /\ ret.raised = "ValueError"

\* the cell of coordinate x among the 2^n equal cells of lo..hi, a cell
\* owning its upper edge; a NaN falls into cell 0
CellIndex(x, lo, hi, n) ==
    IF x = FloatNaN THEN 0
    ELSE LET w == (hi - lo) \div (2 ^ n)
             k == ((x - lo) + w - 1) \div w - 1
         IN  IF k < 0 THEN 0 ELSE IF k > 2 ^ n - 1 THEN 2 ^ n - 1 ELSE k

\* the standard geohash: the bits of the longitude cell and of the latitude
\* cell interleaved, longitude first, five bits to a base-32 character
GeohashOf(lat, lon, precision) ==
    LET nlon == (5 * precision + 1) \div 2
        nlat == (5 * precision) \div 2
        lonIdx == CellIndex(lon, -180 * DEG, 180 * DEG, nlon)
        latIdx == CellIndex(lat, -90 * DEG, 90 * DEG, nlat)
        Bit(t) == IF t % 2 = 0
                  THEN (lonIdx \div (2 ^ (nlon - 1 - (t \div 2)))) % 2
                  ELSE (latIdx \div (2 ^ (nlat - 1 - (t \div 2)))) % 2
        Value(j) == 16 * Bit(5 * j - 5) + 8 * Bit(5 * j - 4) + 4 * Bit(5 * j - 3)
                    + 2 * Bit(5 * j - 2) + Bit(5 * j - 1)
    IN  [j \in 1..precision |-> base32[Value(j) + 1]]

(* C10: geohash_track(track, precision) returns one geohash per sample, in  *)
(* the track's order: as many as the track has samples, the i-th being the  *)
(* encoding of the i-th sample's (lat, lon) at the given precision.         *)
C10_GeohashTrack ==
    fn = "geohash_track" =>
        /\ ret.raised = "none"
        /\ Len(ret.value) = Len(args.track)
        /\ \A i \in 1..Len(args.track) :
             /\ Len(ret.value[i]) = args.precision
             /\ ret.value[i] = GeohashOf(args.track[i].lat, args.track[i].lon,
                                         args.precision)

\* a track of two or more samples whose first two geohashes differ only at
\* the second character
C10_Witness ==
    /\ fn = "geohash_track"
    /\ Len(args.track) >= 2
    /\ args.precision >= 2
    /\ ret.value[1] # ret.value[2]
    /\ ret.value[1][1] = ret.value[2][1]

(* C11: every track load_activities hands on has no sample with a missing   *)
(* latitude or longitude: the stripping still holds after resampling with   *)
(* nearest(limit=1), whatever the gaps between the recorded samples.        *)
C11_NoMissingCoordinates ==
    (fn = "load_activities" /\ ret.raised = "none") =>
        \A i \in DOMAIN ret.value :
            \A j \in DOMAIN ret.value[i].track :
                /\ ret.value[i].track[j].lat # FloatNaN
                /\ ret.value[i].track[j].lon # FloatNaN

(* C12: load_activities returns the table with one track per row, the track *)
(* of row i being the one loaded from row i's Filename, whichever files     *)
(* exist or are missing; a missing file never shifts a track to another row *)
(* and never makes the call fail.                                          *)
C12_OneTrackPerRow ==
    (/\ fn = "load_activities"
     /\ \A i \in DOMAIN args.activities_meta :
           LET file == args.data_dir[args.activities_meta[i].Filename]
           IN  file.is_file => file.suffixes # <<".csv">>) =>
        /\ ret.raised = "none"
        /\ Len(ret.value) = Len(args.activities_meta)
        /\ \A i \in DOMAIN args.activities_meta :
              LET file == args.data_dir[args.activities_meta[i].Filename]
              IN  file.is_file =>
                    ret.value[i].track =
                        resample_nearest(strip_unknown(file.track),
                                         args.resample_freq, 1)

\* the rows of a track at the frames drawn, in frame order, a frame without
\* a row for the track contributing nothing
RECURSIVE RowsDrawn(_, _)
RowsDrawn(track, drawn) ==
    IF drawn = <<>> THEN <<>>
    ELSE LET before == RowsDrawn(track, SubSeq(drawn, 1, Len(drawn) - 1))
             here == {i \in DOMAIN track : track[i].idx = drawn[Len(drawn)]}
         IN  IF here = {} THEN before
             ELSE Append(before, track[CHOOSE i \in here : TRUE])

\* the (lon, lat) of the tracks k..n that have a row at time index idx, in
\* track order
RECURSIVE PointsAt(_, _, _)
PointsAt(trks, k, idx) ==
    IF k > Len(trks) THEN <<>>
    ELSE LET here == {i \in DOMAIN trks[k] : trks[k][i].idx = idx}
             rest == PointsAt(trks, k + 1, idx)
         IN  IF here = {} THEN rest
             ELSE LET row == trks[k][CHOOSE i \in here : TRUE]
                  IN  <<<<row.lon, row.lat>>>> \o rest

(* C13: from init_frame on, after each frame the history of track k is, in  *)
(* frame order, the points of track k at exactly the time indices drawn     *)
(* where track k has a point (so a frame without a point for k leaves its   *)
(* history as it was, and no history shrinks), and the head dot holds       *)
(* exactly the current points of the tracks that have one at the frame's    *)
(* index, none when no track has.                                          *)
C13_HistoriesFollowFrames ==
    (\A k \in DOMAIN artists.lines : artists.lines[k].is_list) =>
        /\ Len(artists.lines) = Len(anim_tracks)
        /\ \A k \in DOMAIN anim_tracks :
              LET drawn == RowsDrawn(anim_tracks[k], frames)
              IN  /\ artists.lines[k].lon = [i \in DOMAIN drawn |-> drawn[i].lon]
                  /\ artists.lines[k].lat = [i \in DOMAIN drawn |-> drawn[i].lat]
        /\ artists.head_offsets =
              IF frames = <<>> THEN <<>>
              ELSE PointsAt(anim_tracks, 1, frames[Len(frames)])

\* two tracks, three frames: a track drawn at some frames and not at others,
\* and a last frame at which no track has a point
C13_Witness ==
    /\ Len(anim_tracks) = 2
    /\ Len(frames) = 3
    /\ \A k \in DOMAIN artists.lines : artists.lines[k].is_list
    /\ \E k \in DOMAIN anim_tracks :
          /\ Len(artists.lines[k].lon) >= 1
          /\ Len(artists.lines[k].lon) < Len(frames)
    /\ Len(artists.lines[1].lon) # Len(artists.lines[2].lon)
    /\ artists.head_offsets = <<>>

=============================================================================
